---- MODULE Spec2Model ----
(***************************************************************************)
(* A model of the phishing classifier's feature-extraction engine:         *)
(*   src/src/utils/url_extractor.py  (validate_url, the probes,            *)
(*                                    extract_features_from_url)           *)
(*   src/api_utils.py                (request models, clean_features,      *)
(*                                    MODEL_FEATURE_ORDER)                 *)
(*   src/main.py                     (process_url_features, predict_url,   *)
(*                                    download_url_report,                 *)
(*                                    predict_multi_url)                   *)
(* A Python string is a sequence of one-character strings.  A dict is a    *)
(* sequence of <<key, value>> pairs in insertion order.                    *)
(***************************************************************************)
EXTENDS Integers, Sequences, FiniteSets, TLC

VARIABLES
    input,      \* SpecValidate: the string handed to validate_url
    verdict,    \* SpecValidate: what validate_url returned for it
    ex,         \* SpecExtract: the frame of one extract_features_from_url call
    req,        \* Spec: the request being served (endpoint and its URLs)
    tasks,      \* Spec: per URL of the request, the to_thread task's state
    results,    \* Spec: per URL, what process_url_features returned
    response,   \* Spec: what the endpoint handed back to the caller
    handed      \* Spec: the frame the endpoint passed to pipeline.predict

vars == <<input, verdict, ex, req, tasks, results, response, handed>>

(***************************************************************************)
(* Bounds of the model.                                                    *)
(***************************************************************************)
\* longest generated tail (after a scheme prefix) of a validate_url input
MaxTail == 4
\* most URLs in one predict_multi_url request
MaxBatch == 3
\* threads of the event loop's default executor (Python: min(32, cpus + 4))
MaxWorkers == 2
\* SpecRatio: every number of references up to MaxRefs
MaxRefs == 10

(***************************************************************************)
(* Python strings.                                                         *)
(***************************************************************************)
LowerLetters ==
    {"a","b","c","d","e","f","g","h","i","j","k","l","m",
     "n","o","p","q","r","s","t","u","v","w","x","y","z"}

UpperSeq == <<"A","B","C","D","E","F","G","H","I","J","K","L","M",
              "N","O","P","Q","R","S","T","U","V","W","X","Y","Z">>

LowerSeq == <<"a","b","c","d","e","f","g","h","i","j","k","l","m",
              "n","o","p","q","r","s","t","u","v","w","x","y","z">>

UpperLetters == {UpperSeq[i] : i \in 1..26}

Letters == LowerLetters \cup UpperLetters

Digits == {"0","1","2","3","4","5","6","7","8","9"}

\* str.lower() on one character
LowerChar(c) ==
    IF c \in UpperLetters
    THEN LowerSeq[CHOOSE i \in 1..26 : UpperSeq[i] = c]
    ELSE c

\* str.lower()
Lower(s) == [i \in 1..Len(s) |-> LowerChar(s[i])]

\* s.startswith(p)
StartsWith(s, p) == Len(p) <= Len(s) /\ SubSeq(s, 1, Len(p)) = p

\* s.endswith(p)
EndsWith(s, p) == Len(p) <= Len(s) /\ SubSeq(s, Len(s) - Len(p) + 1, Len(s)) = p

\* p in s
Contains(s, p) ==
    \E i \in 1..(Len(s) - Len(p) + 1) : SubSeq(s, i, i + Len(p) - 1) = p

\* s.count(c) for a single character c
Count(s, c) == Cardinality({i \in 1..Len(s) : s[i] = c})

\* 1-based index of the first character of s that is in set cs, 0 when none
\* (s.find(c) + 1)
FindAny(s, cs) ==
    IF \E i \in 1..Len(s) : s[i] \in cs
    THEN CHOOSE i \in 1..Len(s) : s[i] \in cs /\ \A j \in 1..(i - 1) : s[j] \notin cs
    ELSE 0

\* 1-based index of the last occurrence of character c in s, 0 when none
RFind(s, c) ==
    IF \E i \in 1..Len(s) : s[i] = c
    THEN CHOOSE i \in 1..Len(s) : s[i] = c /\ \A j \in (i + 1)..Len(s) : s[j] # c
    ELSE 0

\* s.split(c): the pieces between the occurrences of c (always at least one)
RECURSIVE Split(_, _)
Split(s, c) ==
    LET i == FindAny(s, {c})
    IN  IF i = 0 THEN <<s>>
        ELSE <<SubSeq(s, 1, i - 1)>> \o Split(SubSeq(s, i + 1, Len(s)), c)

\* '.'.join(parts)
RECURSIVE Join(_, _)
Join(parts, c) ==
    IF Len(parts) = 0 THEN <<>>
    ELSE IF Len(parts) = 1 THEN parts[1]
    ELSE parts[1] \o <<c>> \o Join(Tail(parts), c)

(***************************************************************************)
(* urllib.parse.urlparse, as validate_url and extract_features_from_url    *)
(* use it: the scheme, the network location and the path.  The inputs have *)
(* no leading blank, no tab or line break and no ';' (the request models   *)
(* strip them, api_utils.py:29,46).                                        *)
(***************************************************************************)
\* urllib's scheme_chars
SchemeChars == Letters \cup Digits \cup {"+", "-", "."}

\* urlsplit raises ValueError("Invalid IPv6 URL") when the network location has
\* an opening bracket without a closing one, or the reverse
BadBrackets(netloc) ==
    LET open == \E i \in 1..Len(netloc) : netloc[i] = "["
        close == \E i \in 1..Len(netloc) : netloc[i] = "]"
    IN  (open /\ ~close) \/ (close /\ ~open)

\* the path of what follows the network location: up to the first '?' or '#'
PathOf(tail) ==
    IF FindAny(tail, {"?", "#"}) = 0 THEN tail
    ELSE SubSeq(tail, 1, FindAny(tail, {"?", "#"}) - 1)

\* after: the text behind '//'; delim: the index in it of the first of '/?#'
\* (0: none), where the network location ends
NetlocAt(scheme, after, delim) ==
    [raises |-> BadBrackets(IF delim = 0 THEN after ELSE SubSeq(after, 1, delim - 1)),
     scheme |-> scheme,
     netloc |-> IF delim = 0 THEN after ELSE SubSeq(after, 1, delim - 1),
     path |-> IF delim = 0 THEN <<>> ELSE PathOf(SubSeq(after, delim, Len(after)))]

\* rest: the text behind the scheme; a network location only behind '//'
UrlRest(scheme, rest) ==
    IF StartsWith(rest, <<"/", "/">>)
    THEN NetlocAt(scheme, SubSeq(rest, 3, Len(rest)),
                  FindAny(SubSeq(rest, 3, Len(rest)), {"/", "?", "#"}))
    ELSE [raises |-> FALSE, scheme |-> scheme, netloc |-> <<>>, path |-> PathOf(rest)]

\* colon: the index of the first ':' (0: none); the text before it is the scheme
\* when it starts with a letter and holds scheme characters only
HasScheme(url, colon) ==
    /\ colon > 1
    /\ url[1] \in Letters
    /\ \A i \in 1..(colon - 1) : url[i] \in SchemeChars

UrlFrom(url, colon) ==
    IF HasScheme(url, colon)
    THEN UrlRest(Lower(SubSeq(url, 1, colon - 1)), SubSeq(url, colon + 1, Len(url)))
    ELSE UrlRest(<<>>, url)

urlparse(url) == UrlFrom(url, FindAny(url, {":"}))

(***************************************************************************)
(* validate_url (url_extractor.py:98-133).                                 *)
(***************************************************************************)
NoDetail == <<>>

\* validate_url not called yet
NoVerdict == [ok |-> FALSE, text |-> "(not called)", detail |-> NoDetail]

Reject(text, detail) == [ok |-> FALSE, text |-> text, detail |-> detail]

\* re.match(r'^[a-zA-Z0-9\.\-]+$', host)
HostCharsOk(host) ==
    /\ Len(host) > 0
    /\ \A i \in 1..Len(host) : host[i] \in Letters \cup Digits \cup {".", "-"}

\* the final-label test with digits allowed: [a-zA-Z0-9]{1,}
TldOk_Alphanumeric(tld) ==
    /\ Len(tld) >= 1
    /\ \A i \in 1..Len(tld) : tld[i] \in Letters \cup Digits

\* the final-label test with the quantifier {1,} in place of {2,}
TldOk_OneLetter(tld) ==
    /\ Len(tld) >= 1
    /\ \A i \in 1..Len(tld) : tld[i] \in Letters

\* re.match(r'^[a-zA-Z]{2,}$', tld)
TldOk(tld) ==
    /\ Len(tld) >= 2
    /\ \A i \in 1..Len(tld) : tld[i] \in Letters

\* parsed.netloc.split(':')[0]
HostOf(netloc) == Split(netloc, ":")[1]

\* lines 129-133
ValidateTld(tld) ==
    IF ~TldOk(tld) THEN Reject("Invalid TLD: .", tld)
    ELSE [ok |-> TRUE, text |-> "Valid URL", detail |-> NoDetail]

\* lines 125-127
ValidateParts(parts) ==
    IF \E i \in 1..Len(parts) : Len(parts[i]) = 0
    THEN Reject("Invalid domain structure", NoDetail)
    ELSE ValidateTld(parts[Len(parts)])

\* lines 116-123
ValidateHost(host) ==
    IF host = <<>> \/ Count(host, ".") < 1
    THEN Reject("Invalid domain. Must have at least one dot", NoDetail)
    ELSE IF StartsWith(host, <<".">>) \/ EndsWith(host, <<".">>)
            \/ Contains(host, <<".", ".">>)
    THEN Reject("Invalid domain format", NoDetail)
    ELSE IF ~HostCharsOk(host)
    THEN Reject("Domain contains invalid characters", NoDetail)
    ELSE ValidateParts(Split(host, "."))

\* lines 105-114; a ValueError of urlparse leaves validate_url
ValidateParsed(parsed) ==
    IF parsed.raises THEN [ok |-> FALSE, text |-> "ValueError", detail |-> NoDetail]
    ELSE IF parsed.scheme = <<>>
    THEN Reject("Missing protocol (http:// or https://)", NoDetail)
    ELSE IF parsed.scheme \notin {<<"h","t","t","p">>, <<"h","t","t","p","s">>}
    THEN Reject("Invalid protocol: ", parsed.scheme)
    ELSE IF parsed.netloc = <<>>
    THEN Reject("Invalid URL format. Missing domain", NoDetail)
    ELSE ValidateHost(HostOf(parsed.netloc))

validate_url(url) ==
    IF Len(url) < 4 THEN Reject("URL is too short", NoDetail)
    ELSE ValidateParsed(urlparse(url))

(***************************************************************************)
(* Python dicts: <<key, value>> pairs in insertion order.                  *)
(***************************************************************************)
Keys(d) == [i \in 1..Len(d) |-> d[i][1]]

Has(d, k) == \E i \in 1..Len(d) : d[i][1] = k

\* d[k]
Get(d, k) == d[CHOOSE i \in 1..Len(d) : d[i][1] = k][2]

\* d[k] = v: a new key goes last, a known key keeps its place
Put(d, k, v) ==
    IF Has(d, k)
    THEN [i \in 1..Len(d) |-> IF d[i][1] = k THEN <<k, v>> ELSE d[i]]
    ELSE Append(d, <<k, v>>)

(***************************************************************************)
(* Module constants (url_extractor.py:26-36, api_utils.py:12-20).          *)
(***************************************************************************)
SHORTENERS ==
    { <<"b","i","t",".","l","y">>, <<"g","o","o",".","g","l">>,
      <<"t","i","n","y","u","r","l",".","c","o","m">>, <<"o","w",".","l","y">>,
      <<"t",".","c","o">>, <<"i","s",".","g","d">>,
      <<"b","u","f","f",".","l","y">>, <<"a","d","f",".","l","y">> }

COLUMNS ==
    << "having_IP_Address", "URL_Length", "Shortining_Service", "having_At_Symbol",
       "double_slash_redirecting", "Prefix_Suffix", "having_Sub_Domain", "SSLfinal_State",
       "Domain_registeration_length", "Favicon", "port", "HTTPS_token", "Request_URL",
       "URL_of_Anchor", "Links_in_tags", "SFH", "Submitting_to_email", "Abnormal_URL",
       "Redirect", "on_mouseover", "RightClick", "popUpWidnow", "Iframe", "age_of_domain",
       "DNSRecord", "web_traffic", "Page_Rank", "Google_Index", "Links_pointing_to_page",
       "Statistical_report", "Result" >>

MODEL_FEATURE_ORDER ==
    << "having_IP_Address", "URL_Length", "Shortining_Service", "having_At_Symbol",
       "double_slash_redirecting", "Prefix_Suffix", "having_Sub_Domain", "SSLfinal_State",
       "Domain_registeration_length", "Favicon", "port", "HTTPS_token", "Request_URL",
       "URL_of_Anchor", "Links_in_tags", "SFH", "Submitting_to_email", "Abnormal_URL",
       "Redirect", "on_mouseover", "RightClick", "popUpWidnow", "Iframe", "age_of_domain",
       "DNSRecord", "web_traffic", "Page_Rank", "Google_Index", "Links_pointing_to_page",
       "Statistical_report" >>

(***************************************************************************)
(* tldextract.extract: public-suffix-aware split of a host into subdomain, *)
(* domain and suffix (url_extractor.py:143-145, 206, 214).  The suffix     *)
(* list is cut down to the suffixes of the hosts used here; a host whose   *)
(* last label is no public suffix has an empty suffix, and then            *)
(* registered_domain is ''.                                                *)
(***************************************************************************)
PublicSuffixes ==
    { << <<"c","o","m">> >>, << <<"u","k">> >>, << <<"c","o">>, <<"u","k">> >>,
      << <<"l","y">> >> }

\* the host of a network location: without userinfo and port, lower-cased
NetlocHost(netloc) ==
    Lower(Split(SubSeq(netloc, RFind(netloc, "@") + 1, Len(netloc)), ":")[1])

\* the largest number of a non-empty set of numbers
Max(S) == CHOOSE k \in S : \A j \in S : j <= k

\* number of trailing labels that form the longest public suffix (0: none)
SuffixLen(labels) ==
    Max({0} \cup {k \in 1..Len(labels) :
                    SubSeq(labels, Len(labels) - k + 1, Len(labels)) \in PublicSuffixes})

ExtractResult(subdomain, domain, suffix) ==
    [subdomain |-> subdomain,
     domain |-> domain,
     suffix |-> suffix,
     registered_domain |->
        IF suffix # <<>> /\ domain # <<>> THEN domain \o <<".">> \o suffix ELSE <<>>]

\* n labels, the last k of them the suffix
ExtractAt(labels, n, k) ==
    ExtractResult(IF k = n THEN <<>> ELSE Join(SubSeq(labels, 1, n - k - 1), "."),
                  IF k = n THEN <<>> ELSE labels[n - k],
                  Join(SubSeq(labels, n - k + 1, n), "."))

ExtractLabels(labels) == ExtractAt(labels, Len(labels), SuffixLen(labels))

tldextract(netloc) == ExtractLabels(Split(NetlocHost(netloc), "."))

(***************************************************************************)
(* What the network answers.  A probe's answer is an input of the model.   *)
(***************************************************************************)
\* requests.get failed, timed out or is not installed: fetch_content gives
\* (None, None); None is written 0 (both are falsy, and no test tells them apart)
NoStatus == 0

\* fetch_content (url_extractor.py:38-53): the answer, as (status, text)
fetch_content(answer) ==
    IF answer.ok THEN [status |-> answer.status, html |-> answer.html]
    ELSE [status |-> NoStatus, html |-> <<>>]

\* check_ssl (url_extractor.py:70-86); answer: the handshake's outcome
check_ssl(url, answer) ==
    IF ~StartsWith(url, <<"h","t","t","p","s">>) THEN -1
    ELSE IF answer.kind = "error" THEN -1
    ELSE IF answer.kind = "no_notAfter" THEN 0
    ELSE IF answer.days > 365 THEN 1
    ELSE IF answer.days > 30 THEN 0
    ELSE -1

\* whether check_ssl opens the connection to host:443
SslConnects(url) == StartsWith(url, <<"h","t","t","p","s">>)

\* get_domain_age (url_extractor.py:55-68); answer: what WHOIS gave
get_domain_age(domain, answer) ==
    IF domain = <<>> THEN -1
    ELSE IF answer.kind = "date" THEN answer.days
    ELSE -1

\* whether get_domain_age sends the WHOIS query
WhoisQueries(domain) == domain # <<>>

\* the bucketing that takes an unknown age for safe
AgeVal_UnknownIsSafe(age_days) ==
    IF age_days = -1 THEN 1
    ELSE IF age_days >= 365 THEN 1
    ELSE IF age_days >= 180 THEN 0
    ELSE -1

\* the caller's bucketing of the age (url_extractor.py:179-187)
AgeVal(age_days) ==
    IF age_days = -1 THEN -1
    ELSE IF age_days >= 365 THEN 1
    ELSE IF age_days >= 180 THEN 0
    ELSE -1

\* a check that takes a timeout for no evidence
check_dns_NeutralOnTimeout(domain, answer) ==
    IF domain = <<>> THEN -1
    ELSE IF answer.kind = "resolved" THEN 1
    ELSE IF answer.kind = "timeout" THEN 0
    ELSE -1

\* check_dns (url_extractor.py:88-96); answer: whether the A record resolved
check_dns(domain, answer) ==
    IF domain = <<>> THEN -1
    ELSE IF answer.kind = "resolved" THEN 1
    ELSE -1

\* whether check_dns sends the query
DnsQueries(domain) == domain # <<>>

(***************************************************************************)
(* A fetched page.  The regular expressions of the HTML block scan the     *)
(* text for attributes of tags; a page is the sequence of what they can    *)
(* match: per tag its name, its rel, one attribute with its quoted value,  *)
(* and the script idiom it carries.  The empty page is the text ''.        *)
(***************************************************************************)
El(tag, rel, attr, val, js) == [tag |-> tag, rel |-> rel, attr |-> attr, val |-> val, js |-> js]

\* <link[^>]+rel=["']?(?:icon|shortcut icon)["']?[^>]+href=['"]([^'"]+)
IsFavicon(e) ==
    e.tag = "link" /\ e.rel \in {"icon", "shortcut icon"} /\ e.attr = "href" /\ e.val # <<>>

\* (?:src|href)=["']([^"']+)
IsLink(e) == e.attr \in {"src", "href"} /\ e.val # <<>>

\* <a[^>]+href=["']([^"']+)
IsAnchor(e) == e.tag = "a" /\ e.attr = "href" /\ e.val # <<>>

\* <(?:meta|script|link)[^>]+(?:src|href)=["']([^"']+)
IsTagLink(e) == e.tag \in {"meta", "script", "link"} /\ IsLink(e)

\* <form[^>]+action=["']([^"']*)
IsForm(e) == e.tag = "form" /\ e.attr = "action"

\* netloc and tldextract.extract(netloc).registered_domain != domain
NetlocExternal(netloc, domain) ==
    netloc # <<>> /\ tldextract(netloc).registered_domain # domain

IsExternal(l, domain) == NetlocExternal(urlparse(l).netloc, domain)

\* a.startswith(('#', 'javascript:', 'mailto:')) or IsExternal
IsSuspAnchor(a, domain) ==
    \/ StartsWith(a, <<"#">>)
    \/ StartsWith(a, <<"j","a","v","a","s","c","r","i","p","t",":">>)
    \/ StartsWith(a, <<"m","a","i","l","t","o",":">>)
    \/ IsExternal(a, domain)

\* the bucketing with the high threshold left out of the middle bucket
Bucket_HighExclusive(count, total, lo, hi) ==
    IF total = 0 THEN 1
    ELSE IF count * 100 < lo * total THEN 1
    ELSE IF count * 100 < hi * total THEN 0
    ELSE -1

\* pct = count / total * 100 if total else 0; 1 if pct < lo else (0 if pct <= hi else -1)
Bucket(count, total, lo, hi) ==
    IF total = 0 THEN 1
    ELSE IF count * 100 < lo * total THEN 1
    ELSE IF count * 100 <= hi * total THEN 0
    ELSE -1

\* the test by equality
BadAction_Equals(f) ==
    f = <<>> \/ f = <<"a","b","o","u","t",":","b","l","a","n","k">>

\* not f or 'about:blank' in f.lower()
BadAction(f) ==
    f = <<>> \/ Contains(Lower(f), <<"a","b","o","u","t",":","b","l","a","n","k">>)

Flag(found) == IF found THEN -1 ELSE 1

\* whether a urlparse of the HTML block raises ValueError on this page
\* (url_extractor.py:206, 213, 221, 227)
RefRaises(e) == urlparse(e.val).raises

\* the anchor test parses only what does not start as a fragment or script
AnchorRaises(e) ==
    /\ ~StartsWith(e.val, <<"#">>)
    /\ ~StartsWith(e.val, <<"j","a","v","a","s","c","r","i","p","t",":">>)
    /\ ~StartsWith(e.val, <<"m","a","i","l","t","o",":">>)
    /\ urlparse(e.val).raises

\* the first match only (re.search)
FirstRaises(favs) == favs # <<>> /\ RefRaises(favs[1])

AnyRaises(refs, R(_)) == \E i \in 1..Len(refs) : R(refs[i])

HtmlRaises(page) ==
    \/ FirstRaises(SelectSeq(page, IsFavicon))
    \/ AnyRaises(SelectSeq(page, IsLink), RefRaises)
    \/ AnyRaises(SelectSeq(page, IsAnchor), AnchorRaises)
    \/ AnyRaises(SelectSeq(page, IsTagLink), RefRaises)

\* lines 205-209
FaviconOf(fav_domain, domain) == IF fav_domain # <<>> /\ fav_domain # domain THEN -1 ELSE 1

\* a page without favicon counted as safe
FaviconSignal_NoneIsSafe(favs, domain) ==
    IF favs # <<>>
    THEN FaviconOf(tldextract(urlparse(favs[1].val).netloc).registered_domain, domain)
    ELSE 1

FaviconSignal(favs, domain) ==
    IF favs # <<>>
    THEN FaviconOf(tldextract(urlparse(favs[1].val).netloc).registered_domain, domain)
    ELSE 0

\* lines 212-230: the share of refs that are external
RatioSignal(refs, domain, lo, hi) ==
    Bucket(Cardinality({i \in 1..Len(refs) : IsExternal(refs[i].val, domain)}),
           Len(refs), lo, hi)

AnchorSignal(refs, domain, lo, hi) ==
    Bucket(Cardinality({i \in 1..Len(refs) : IsSuspAnchor(refs[i].val, domain)}),
           Len(refs), lo, hi)

\* line 234
SfhSignal(forms) == Flag(\E i \in 1..Len(forms) : BadAction(forms[i].val))

\* re.search(r'mailto:', html, re.I)
HasMailto(page) ==
    \E i \in 1..Len(page) : Contains(Lower(page[i].val), <<"m","a","i","l","t","o",":">>)

HasScript(page, js) == \E i \in 1..Len(page) : page[i].js = js

\* the ten signals of a page fetched with status 200 (url_extractor.py:203-243)
HtmlSignals(features, page, domain) ==
    Put(Put(Put(Put(Put(Put(Put(Put(Put(Put(features,
        "Favicon", FaviconSignal(SelectSeq(page, IsFavicon), domain)),
        "Request_URL", RatioSignal(SelectSeq(page, IsLink), domain, 22, 61)),
        "URL_of_Anchor", AnchorSignal(SelectSeq(page, IsAnchor), domain, 31, 67)),
        "Links_in_tags", RatioSignal(SelectSeq(page, IsTagLink), domain, 17, 81)),
        "SFH", SfhSignal(SelectSeq(page, IsForm))),
        "Submitting_to_email", Flag(HasMailto(page))),
        "on_mouseover", Flag(HasScript(page, "onmouseover="))),
        "RightClick", Flag(HasScript(page, "event.button==2"))),
        "popUpWidnow", Flag(HasScript(page, "window.open("))),
        "Iframe", Flag(\E i \in 1..Len(page) : page[i].tag = "iframe"))

\* the fallback with one assignment forgotten
HtmlFallback_Missing(features) ==
    Put(Put(Put(Put(Put(Put(Put(Put(Put(features,
        "Favicon", -1), "Request_URL", -1), "URL_of_Anchor", -1), "Links_in_tags", -1),
        "SFH", -1), "on_mouseover", 0), "RightClick", 0),
        "popUpWidnow", 0), "Iframe", 0)

\* the fallback of the ten signals (url_extractor.py:244-255)
HtmlFallback(features) ==
    Put(Put(Put(Put(Put(Put(Put(Put(Put(Put(features,
        "Favicon", -1), "Request_URL", -1), "URL_of_Anchor", -1), "Links_in_tags", -1),
        "SFH", -1), "Submitting_to_email", 0), "on_mouseover", 0), "RightClick", 0),
        "popUpWidnow", 0), "Iframe", 0)

\* the test without the status
HtmlRuns_AnyStatus(status, html) == html # <<>>

\* if html and status == 200 (url_extractor.py:202)
HtmlRuns(status, html) == html # <<>> /\ status = 200

(***************************************************************************)
(* The signals computed from the URL alone (url_extractor.py:152-173,      *)
(* 192-196).                                                               *)
(***************************************************************************)
\* re.match(r'^\d+\.\d+\.\d+\.\d+$', host)
AllDigits(part) == Len(part) > 0 /\ \A j \in 1..Len(part) : part[j] \in Digits

QuadParts(parts) == Len(parts) = 4 /\ \A i \in 1..4 : AllDigits(parts[i])

IsDottedQuad(host) == QuadParts(Split(host, "."))

\* len(subdomain.split('.')) if subdomain else 0
SubCount(subdomain) == IF subdomain # <<>> THEN Len(Split(subdomain, ".")) ELSE 0

SubDomainSignal(sub_count) == IF sub_count <= 1 THEN 1 ELSE IF sub_count = 2 THEN 0 ELSE -1

LengthSignal(length) == IF length < 54 THEN 1 ELSE IF length <= 75 THEN 0 ELSE -1

LexicalSignals(features, url, host, path, subdomain) ==
    Put(Put(Put(Put(Put(Put(Put(features,
        "having_IP_Address", IF IsDottedQuad(host) THEN -1 ELSE 1),
        "URL_Length", LengthSignal(Len(url))),
        "Shortining_Service", Flag(\E s \in SHORTENERS : Contains(Lower(host), s))),
        "having_At_Symbol", Flag(Contains(url, <<"@">>))),
        "double_slash_redirecting", Flag(Contains(path, <<"/", "/">>))),
        "Prefix_Suffix", Flag(Contains(host, <<"-">>))),
        "having_Sub_Domain", SubDomainSignal(SubCount(subdomain)))

\* ':' in parsed.netloc and parsed.netloc.split(':')[-1] not in ('80', '443')
OddPort(netloc) ==
    /\ Contains(netloc, <<":">>)
    /\ Split(netloc, ":")[Len(Split(netloc, ":"))] \notin {<<"8","0">>, <<"4","4","3">>}

PortSignals(features, netloc, host) ==
    Put(Put(features, "port", Flag(OddPort(netloc))),
        "HTTPS_token", Flag(Contains(Lower(host), <<"h","t","t","p","s">>)))

\* url_extractor.py:257-270
FinalSignals(features, domain, scheme, status) ==
    Put(Put(Put(Put(Put(Put(Put(Put(features,
        "Abnormal_URL", IF domain # <<>> /\ scheme # <<>> THEN 1 ELSE -1),
        "Redirect", IF status # NoStatus /\ 300 <= status /\ status < 400 THEN -1 ELSE 1),
        "web_traffic", 0), "Page_Rank", 0), "Google_Index", 0),
        "Links_pointing_to_page", 0), "Statistical_report", 0), "Result", 1)

(***************************************************************************)
(* extract_features_from_url (url_extractor.py:135-272), one step per      *)
(* stretch of the function between two probes.  A frame holds the call's   *)
(* local variables; calls lists the network probes started so far.         *)
(***************************************************************************)
NoAnswer == [kind |-> "none", days |-> 0]

NoError == [type |-> "none", text |-> "", verdict |-> NoVerdict]

NewFrame(url) ==
    [pc |-> "validate", url |-> url, scheme |-> <<>>, netloc |-> <<>>, path |-> <<>>,
     host |-> <<>>, domain |-> <<>>, subdomain |-> <<>>,
     status |-> NoStatus, html |-> <<>>, features |-> <<>>, calls |-> <<>>,
     ssl_answer |-> NoAnswer, whois_answer |-> NoAnswer, dns_answer |-> NoAnswer,
     error |-> NoError]

\* parsed.netloc.split(':')[0] if parsed.netloc else ''
UrlHost(netloc) == IF netloc # <<>> THEN HostOf(netloc) ELSE <<>>

\* the first step without the raise on a rejected URL
StepValidate_NoGate(f) ==
    [f EXCEPT !.pc = "fetch",
              !.scheme = urlparse(f.url).scheme,
              !.netloc = urlparse(f.url).netloc,
              !.path = urlparse(f.url).path,
              !.host = UrlHost(urlparse(f.url).netloc),
              !.domain = tldextract(UrlHost(urlparse(f.url).netloc)).registered_domain,
              !.subdomain = tldextract(UrlHost(urlparse(f.url).netloc)).subdomain]

\* lines 137-145: validate, raise ValueError or parse the URL
StepValidate(f) ==
    IF ~validate_url(f.url).ok
    THEN [f EXCEPT !.pc = "raised",
                   !.error = [type |-> "ValueError", text |-> "Invalid URL: ",
                              verdict |-> validate_url(f.url)]]
    ELSE [f EXCEPT !.pc = "fetch",
                   !.scheme = urlparse(f.url).scheme,
                   !.netloc = urlparse(f.url).netloc,
                   !.path = urlparse(f.url).path,
                   !.host = UrlHost(urlparse(f.url).netloc),
                   !.domain = tldextract(UrlHost(urlparse(f.url).netloc)).registered_domain,
                   !.subdomain = tldextract(UrlHost(urlparse(f.url).netloc)).subdomain]

\* a fetch that asks a second time when the first request failed
StepFetch_RetryOnFailure(f, answer) ==
    [f EXCEPT !.pc = "lexical",
              !.status = fetch_content(answer).status,
              !.html = fetch_content(answer).html,
              !.calls = IF answer.ok THEN Append(@, "fetch_content")
                        ELSE Append(Append(@, "fetch_content"), "fetch_content")]

\* lines 147-148
StepFetch(f, answer) ==
    [f EXCEPT !.pc = "lexical",
              !.status = fetch_content(answer).status,
              !.html = fetch_content(answer).html,
              !.calls = Append(@, "fetch_content")]

\* a shortener test that also looks at the status of the fetch
StepLexical_RedirectIsShortener(f) ==
    [f EXCEPT !.pc = "ssl",
              !.features =
                  Put(LexicalSignals(@, f.url, f.host, f.path, f.subdomain),
                      "Shortining_Service",
                      IF (\E s \in SHORTENERS : Contains(Lower(f.host), s))
                         \/ (300 <= f.status /\ f.status < 400)
                      THEN -1 ELSE 1)]

\* lines 150-173
StepLexical(f) ==
    [f EXCEPT !.pc = "ssl",
              !.features = LexicalSignals(@, f.url, f.host, f.path, f.subdomain)]

\* line 176; answer is what the server at host:443 answers to a handshake,
\* whether or not check_ssl connects
StepSsl(f, answer) ==
    [f EXCEPT !.pc = "whois",
              !.features = Put(@, "SSLfinal_State", check_ssl(f.url, answer)),
              !.ssl_answer = answer,
              !.calls = IF SslConnects(f.url) THEN Append(@, "check_ssl") ELSE @]

\* lines 179-196
StepWhois(f, answer) ==
    [f EXCEPT !.pc = "dns",
              !.features =
                  PortSignals(
                      Put(Put(@, "Domain_registeration_length",
                              AgeVal(get_domain_age(f.domain, answer))),
                          "age_of_domain", AgeVal(get_domain_age(f.domain, answer))),
                      f.netloc, f.host),
              !.whois_answer = IF WhoisQueries(f.domain) THEN answer ELSE @,
              !.calls = IF WhoisQueries(f.domain) THEN Append(@, "get_domain_age") ELSE @]

\* line 199
StepDns(f, answer) ==
    [f EXCEPT !.pc = "html",
              !.features = Put(@, "DNSRecord", check_dns(f.domain, answer)),
              !.dns_answer = IF DnsQueries(f.domain) THEN answer ELSE @,
              !.calls = IF DnsQueries(f.domain) THEN Append(@, "check_dns") ELSE @]

\* lines 202-255; a ValueError of urlparse leaves the function
StepHtml(f) ==
    IF HtmlRuns(f.status, f.html)
    THEN IF HtmlRaises(f.html)
         THEN [f EXCEPT !.pc = "raised",
                        !.error = [type |-> "ValueError", text |-> "Invalid IPv6 URL",
                                   verdict |-> NoVerdict]]
         ELSE [f EXCEPT !.pc = "finish",
                        !.features = HtmlSignals(@, f.html, f.domain)]
    ELSE [f EXCEPT !.pc = "finish", !.features = HtmlFallback(@)]

\* lines 257-272
StepFinish(f) ==
    [f EXCEPT !.pc = "returned",
              !.features = FinalSignals(@, f.domain, f.scheme, f.status)]

(***************************************************************************)
(* The URLs and the probe answers the extraction is run on.                *)
(***************************************************************************)
UrlGood == <<"h","t","t","p",":","/","/","g","o","o","d",".","e","x","a","m","p","l","e",".","c","o","m">>

UrlNotAUrl == <<"n","o","t"," ","a"," ","u","r","l">>

UrlShort == <<"h","t","t","p",":","/","/","b","i","t",".","l","y","/","x","y","z">>

UrlHttps == <<"h","t","t","p","s",":","/","/","e","x","a","m","p","l","e",".","c","o","m">>

UrlUpper == <<"H","T","T","P","S",":","/","/","a","-","b",".","e","x","a","m","p","l","e",".","c","o",".","u","k",":","8","0","8","0","/","/","x">>

UrlQuad == <<"h","t","t","p",":","/","/","1",".","1",".","1",".","1","/">>

UrlUserinfo == <<"h","t","t","p",":","/","/","a",".","c","o","m",":","x","@","e","v","i","l",".","c","o","m","/">>

UrlLocal == <<"h","t","t","p",":","/","/","p","a","y","p","a","l",".","l","o","c","a","l">>

UrlFtp == <<"f","t","p",":","/","/","e","x","a","m","p","l","e",".","c","o","m">>

UrlReddit == <<"h","t","t","p",":","/","/","r","e","d","d","i","t",".","c","o","m">>

SampleURLs ==
    {UrlGood, UrlNotAUrl, UrlShort, UrlHttps, UrlUpper, UrlQuad, UrlUserinfo, UrlLocal, UrlFtp,
     UrlReddit}

RefLocal == <<"/","i","m","g","/","a",".","p","n","g">>

RefEvil == <<"h","t","t","p",":","/","/","e","v","i","l",".","c","o","m","/","x",".","j","s">>

RefBroken == <<"h","t","t","p",":","/","/","[">>

RefMail == <<"m","a","i","l","t","o",":","a","@","b",".","c","o","m">>

\* a page of text only
PagePlain == << El("p", "", "", <<>>, "") >>

\* ten src references, three of them to another site
PageTen ==
    << El("img", "", "src", RefLocal, ""), El("img", "", "src", RefLocal, ""),
       El("img", "", "src", RefLocal, ""), El("img", "", "src", RefLocal, ""),
       El("img", "", "src", RefLocal, ""), El("img", "", "src", RefLocal, ""),
       El("img", "", "src", RefLocal, ""), El("script", "", "src", RefEvil, ""),
       El("script", "", "src", RefEvil, ""), El("script", "", "src", RefEvil, "") >>

\* a foreign favicon, suspicious anchors, an empty form action, script tricks
PageTricks ==
    << El("link", "icon", "href", RefEvil, ""), El("a", "", "href", <<"#">>, ""),
       El("a", "", "href", RefMail, "onmouseover="), El("form", "", "action", <<>>, ""),
       El("script", "", "", <<>>, "event.button==2"), El("script", "", "", <<>>, "window.open("),
       El("iframe", "", "src", RefEvil, "") >>

\* an anchor whose href has an unclosed bracket
PageBroken == << El("a", "", "href", RefBroken, "") >>

Pages == {<<>>, PagePlain, PageTen, PageTricks, PageBroken}

RefOwn == <<"h","t","t","p",":","/","/","e","x","a","m","p","l","e",".","c","o","m","/","f",".","i","c","o">>

RefBlank == <<"a","b","o","u","t",":","b","l","a","n","k">>

RefViaBlank == <<"/","r","?","u","=","A","b","o","u","t",":","b","l","a","n","k">>

RefLogin == <<"/","l","o","g","i","n">>

\* a favicon at example.com and a form posting to about:blank
PageOwnIcon ==
    << El("link", "icon", "href", RefOwn, ""), El("form", "", "action", RefBlank, "") >>

\* a favicon given by a relative reference, a form posting to the site itself
PageRelIcon ==
    << El("link", "shortcut icon", "href", RefLocal, ""), El("form", "", "action", RefLogin, "") >>

\* no favicon, a form whose action only mentions about:blank
PageViaBlank == << El("form", "", "action", RefViaBlank, "") >>

FormPages == {PageOwnIcon, PageRelIcon, PageViaBlank}

Statuses == {200, 302, 404}

Unavailable == [ok |-> FALSE, status |-> NoStatus, html |-> <<>>]

FetchAnswers ==
    {Unavailable}
    \cup {[ok |-> TRUE, status |-> s, html |-> p] : s \in Statuses, p \in Pages}
    \cup {[ok |-> TRUE, status |-> 200, html |-> p] : p \in FormPages}

CertDays == {10, 30, 31, 365, 366, 400}

SslAnswers ==
    {[kind |-> "error", days |-> 0], [kind |-> "no_notAfter", days |-> 0]}
    \cup {[kind |-> "cert", days |-> d] : d \in CertDays}

AgeDays == {-1, 0, 179, 180, 364, 365}

WhoisAnswers ==
    {[kind |-> "error", days |-> 0], [kind |-> "no_date", days |-> 0],
     [kind |-> "str", days |-> 0]}
    \cup {[kind |-> "date", days |-> d] : d \in AgeDays}

\* "error": any other exception, a missing resolver module included
DnsAnswers ==
    {[kind |-> k, days |-> 0] : k \in {"resolved", "nxdomain", "timeout", "error"}}

(***************************************************************************)
(* Inputs of validate_url: a scheme prefix followed by every string over   *)
(* a small alphabet up to MaxTail characters.                              *)
(***************************************************************************)
Prefixes ==
    { <<>>,
      <<"h","t","t","p",":","/","/">>,
      <<"h","t","t","p","s",":","/","/">>,
      <<"H","T","T","P",":","/","/">>,
      <<"f","t","p",":","/","/">>,
      <<"h","t","t","p",":">> }

TailChars == {"a", "1", ".", "-", ":", "/", "@"}

Tails == UNION {[1..n -> TailChars] : n \in 0..MaxTail}

GenURLs == {p \o t : p \in Prefixes, t \in Tails}

InitValidate ==
    /\ input \in GenURLs
    /\ verdict = NoVerdict
    /\ ex = [pc |-> "idle"]
    /\ req = [kind |-> "idle"]
    /\ tasks = <<>>
    /\ results = <<>>
    /\ response = [kind |-> "idle"]
    /\ handed = [called |-> FALSE, columns |-> <<>>, rows |-> <<>>]

\* one call validate_url(input)
Validate ==
    /\ verdict = NoVerdict
    /\ verdict' = validate_url(input)
    /\ UNCHANGED <<input, ex, req, tasks, results, response, handed>>

NextValidate == Validate

SpecValidate == InitValidate /\ [][NextValidate]_vars


(***************************************************************************)
(* The seven rules of the validator, stated on the parsed input.           *)
(***************************************************************************)
InputHost(url) == HostOf(urlparse(url).netloc)

\* the text behind the last '.' of the host
LastLabel(host) == SubSeq(host, RFind(host, ".") + 1, Len(host))

Rule4(host) ==
    /\ \E i \in 1..Len(host) : host[i] = "."
    /\ host[1] # "."
    /\ host[Len(host)] # "."
    /\ \A i \in 1..(Len(host) - 1) : ~(host[i] = "." /\ host[i + 1] = ".")

Rule5(host) ==
    /\ host # <<>>
    /\ \A i \in 1..Len(host) : host[i] \in Letters \cup Digits \cup {".", "-"}

Rule6(host) ==
    /\ host # <<>>
    /\ host[1] # "."
    /\ host[Len(host)] # "."
    /\ \A i \in 1..(Len(host) - 1) : ~(host[i] = "." /\ host[i + 1] = ".")

Rule7(host) ==
    /\ Len(LastLabel(host)) >= 2
    /\ \A i \in 1..Len(LastLabel(host)) : LastLabel(host)[i] \in Letters

RuleHolds(n, url) ==
    CASE n = 1 -> Len(url) >= 4
      [] n = 2 -> urlparse(url).scheme \in {<<"h","t","t","p">>, <<"h","t","t","p","s">>}
      [] n = 3 -> urlparse(url).netloc # <<>>
      [] n = 4 -> Rule4(InputHost(url))
      [] n = 5 -> Rule5(InputHost(url))
      [] n = 6 -> Rule6(InputHost(url))
      [] n = 7 -> Rule7(InputHost(url))

Violated(url) == {n \in 1..7 : ~RuleHolds(n, url)}

Min(S) == CHOOSE k \in S : \A j \in S : k <= j

\* the rule a reason text speaks of (0: no rule)
RuleOfReason(text) ==
    CASE text = "URL is too short" -> 1
      [] text = "Missing protocol (http:// or https://)" -> 2
      [] text = "Invalid protocol: " -> 2
      [] text = "Invalid URL format. Missing domain" -> 3
      [] text = "Invalid domain. Must have at least one dot" -> 4
      [] text = "Invalid domain format" -> 4
      [] text = "Domain contains invalid characters" -> 5
      [] text = "Invalid domain structure" -> 6
      [] text = "Invalid TLD: ." -> 7
      [] OTHER -> 0

NoScheme(url) == urlparse(url).scheme = <<>>

NoHost(url) == urlparse(url).netloc = <<>> \/ InputHost(url) = <<>>

\* accepted exactly when all seven rules hold; a rejection gives the reason of
\* the lowest-numbered violated rule
FirstFailureWins ==
    verdict # NoVerdict =>
        /\ verdict.ok <=> Violated(input) = {}
        /\ ~verdict.ok => RuleOfReason(verdict.text) = Min(Violated(input))

IdleFrame == [pc |-> "idle"]

IdleReq == [kind |-> "idle"]

IdleResponse == [kind |-> "idle"]

InitExtract ==
    /\ input = <<>>
    /\ verdict = NoVerdict
    /\ ex \in {NewFrame(u) : u \in SampleURLs}
    /\ req = IdleReq
    /\ tasks = <<>>
    /\ results = <<>>
    /\ response = IdleResponse
    /\ handed = [called |-> FALSE, columns |-> <<>>, rows |-> <<>>]

ExRest == <<input, verdict, req, tasks, results, response, handed>>

ExValidate == ex.pc = "validate" /\ ex' = StepValidate(ex) /\ UNCHANGED ExRest

ExFetch ==
    /\ ex.pc = "fetch"
    /\ \E a \in FetchAnswers : ex' = StepFetch(ex, a)
    /\ UNCHANGED ExRest

ExLexical == ex.pc = "lexical" /\ ex' = StepLexical(ex) /\ UNCHANGED ExRest

ExSsl ==
    /\ ex.pc = "ssl"
    /\ \E a \in (IF ex.scheme = <<"h","t","t","p","s">> THEN SslAnswers ELSE {NoAnswer}) :
          ex' = StepSsl(ex, a)
    /\ UNCHANGED ExRest

ExWhois ==
    /\ ex.pc = "whois"
    /\ \E a \in (IF WhoisQueries(ex.domain) THEN WhoisAnswers ELSE {NoAnswer}) :
          ex' = StepWhois(ex, a)
    /\ UNCHANGED ExRest

ExDns ==
    /\ ex.pc = "dns"
    /\ \E a \in (IF DnsQueries(ex.domain) THEN DnsAnswers ELSE {NoAnswer}) :
          ex' = StepDns(ex, a)
    /\ UNCHANGED ExRest

ExHtml == ex.pc = "html" /\ ex' = StepHtml(ex) /\ UNCHANGED ExRest

ExFinish == ex.pc = "finish" /\ ex' = StepFinish(ex) /\ UNCHANGED ExRest

NextExtract ==
    \/ ExValidate
    \/ ExFetch
    \/ ExLexical
    \/ ExSsl
    \/ ExWhois
    \/ ExDns
    \/ ExHtml
    \/ ExFinish

SpecExtract == InitExtract /\ [][NextExtract]_vars

(***************************************************************************)
(* Properties of one extraction.                                           *)
(***************************************************************************)
Signals == {-1, 0, 1}

\* C1: for every URL validate_url accepts and every answer of the probes the
\* call returns a feature vector; no probe outcome makes it raise
C1_ProbesNeverFailExtraction ==
    validate_url(ex.url).ok => ex.pc # "raised"

\* C2: a returned vector has a value for exactly the 31 names of COLUMNS, and
\* each of the 30 signals is -1, 0 or 1
C2_VectorComplete ==
    ex.pc = "returned" =>
        /\ Len(ex.features) = 31
        /\ {ex.features[i][1] : i \in 1..Len(ex.features)} = {COLUMNS[i] : i \in 1..31}
        /\ \A i \in 1..30 : Get(ex.features, COLUMNS[i]) \in Signals

\* every probe failed, and the vector is there all the same
C2_Witness ==
    /\ ex.pc = "returned"
    /\ ex.status = NoStatus
    /\ ex.ssl_answer.kind = "error"
    /\ ex.whois_answer.kind = "error"
    /\ ex.dns_answer.kind = "error"
    /\ Len(ex.features) = 31

\* C5: no probe is started before validate_url has accepted the URL, and a
\* rejected URL ends the call with the validation error and no probe at all
C5_ValidationGatesProbes ==
    /\ ex.calls # <<>> => ex.pc # "validate" /\ validate_url(ex.url).ok
    /\ (ex.pc # "validate" /\ ~validate_url(ex.url).ok) =>
          /\ ex.pc = "raised"
          /\ ex.error.type = "ValueError"
          /\ ex.error.text = "Invalid URL: "
          /\ ex.error.verdict = validate_url(ex.url)
          /\ ex.calls = <<>>

\* a rejected URL: the call has ended, nothing was probed
C5_Witness ==
    /\ ex.pc = "raised"
    /\ ex.error.text = "Invalid URL: "
    /\ ex.calls = <<>>

(***************************************************************************)
(* The ten signals of the page.                                            *)
(***************************************************************************)
RefSignals == {"Favicon", "Request_URL", "URL_of_Anchor", "Links_in_tags", "SFH"}

JsSignals == {"Submitting_to_email", "on_mouseover", "RightClick", "popUpWidnow", "Iframe"}

\* the fixed fallback of the ten signals
IsFallback(features) ==
    /\ \A n \in RefSignals : Get(features, n) = -1
    /\ \A n \in JsSignals : Get(features, n) = 0

\* the ten signals were read off the page: a script-trick signal tells whether
\* the page has the trick and is never the neutral 0
IsComputed(features, page) ==
    /\ \A n \in JsSignals : Get(features, n) \in {-1, 1}
    /\ Get(features, "Iframe") = -1 <=> \E i \in 1..Len(page) : page[i].tag = "iframe"
    /\ Get(features, "on_mouseover") = -1 <=> \E i \in 1..Len(page) : page[i].js = "onmouseover="
    /\ Get(features, "SFH") \in {-1, 1}
    /\ Get(features, "Favicon") = 0 <=> \A i \in 1..Len(page) : ~IsFavicon(page[i])

\* C11 as stated: the ten signals are read off the page exactly when the fetch
\* gave status 200, and are the fallback in every other case
C11_AsStated ==
    ex.pc = "returned" =>
        IF ex.status = 200 THEN IsComputed(ex.features, ex.html) ELSE IsFallback(ex.features)

\* C11 amended: the ten signals are read off the page exactly when the fetch
\* gave status 200 and a non-empty body, and are the fallback in every other
\* case (fetch unavailable, another status, or an empty body)
C11_ComputedOn200WithBody ==
    ex.pc = "returned" =>
        IF ex.status = 200 /\ ex.html # <<>>
        THEN IsComputed(ex.features, ex.html)
        ELSE IsFallback(ex.features)

\* a page full of tricks came with status 404 and the vector has the fallback
C11_Witness ==
    /\ ex.pc = "returned"
    /\ ex.status = 404
    /\ ex.html = PageTricks
    /\ IsFallback(ex.features)

\* the HTML block ran and the call returned
Analysed == ex.pc = "returned" /\ ex.status = 200 /\ ex.html # <<>>

\* the favicon links of the page, and the registrable domain the first names
Favs == SelectSeq(ex.html, IsFavicon)

FavDomain == tldextract(urlparse(Favs[1].val).netloc).registered_domain

\* C12 as stated: Favicon is -1 for a favicon of another registrable domain,
\* and 1 when the favicon's domain matches and when there is no favicon
C12_AsStated ==
    Analysed =>
        Get(ex.features, "Favicon") =
            IF Favs # <<>> /\ FavDomain # <<>> /\ FavDomain # ex.domain THEN -1 ELSE 1

\* C12 amended: Favicon is -1 for a favicon that names another registrable
\* domain, 1 for a favicon of the page's own domain or one that names no
\* registrable domain, and 0 when the page has no favicon link
C12_FaviconSignal ==
    Analysed =>
        Get(ex.features, "Favicon") =
            IF Favs = <<>> THEN 0
            ELSE IF FavDomain # <<>> /\ FavDomain # ex.domain THEN -1
            ELSE 1

\* a page of ten images and scripts, none a favicon
C12_Witness ==
    /\ Analysed
    /\ ex.html = PageTen
    /\ Favs = <<>>
    /\ Get(ex.features, "Favicon") = 0

\* the form actions of the page
Actions == {ex.html[i].val : i \in {j \in 1..Len(ex.html) : IsForm(ex.html[j])}}

\* C18 as stated: SFH is -1 exactly when some form has an action that is empty
\* or equals about:blank, and 1 otherwise
C18_AsStated ==
    Analysed =>
        Get(ex.features, "SFH") =
            IF \E f \in Actions : f = <<>> \/ f = RefBlank THEN -1 ELSE 1

\* C18 amended: SFH is -1 exactly when some form has an action that is empty
\* or contains about:blank in any letter case, and 1 otherwise
C18_SfhSignal ==
    Analysed =>
        Get(ex.features, "SFH") =
            IF \E f \in Actions :
                  \/ f = <<>>
                  \/ \E i \in 0..(Len(f) - Len(RefBlank)) :
                        Lower(SubSeq(f, i + 1, i + Len(RefBlank))) = RefBlank
            THEN -1 ELSE 1

\* a form whose action only mentions about:blank in a query
C18_Witness ==
    /\ Analysed
    /\ ex.html = PageViaBlank
    /\ Actions = {RefViaBlank}
    /\ Get(ex.features, "SFH") = -1

(***************************************************************************)
(* The signals of the URL text.                                            *)
(***************************************************************************)
\* C19: Shortining_Service is -1 exactly when the host is one of SHORTENERS,
\* and 1 for every other host
C19_ShortenerMembership ==
    Has(ex.features, "Shortining_Service") =>
        Get(ex.features, "Shortining_Service") =
            IF Lower(ex.host) \in SHORTENERS THEN -1 ELSE 1

(***************************************************************************)
(* The probes' signals.                                                    *)
(***************************************************************************)
\* the call has started the probe
Called(probe) == \E c \in 1..Len(ex.calls) : ex.calls[c] = probe

Https == <<"h","t","t","p","s">>

\* C13: for an accepted URL, SSLfinal_State is -1 with no TLS connection
\* exactly when the scheme is not https; an https scheme, in whatever letter
\* case the validator accepts it, gets a TLS connection
C13_HttpsTriggersTls ==
    (validate_url(ex.url).ok /\ Has(ex.features, "SSLfinal_State")) =>
        /\ ex.scheme # Https =>
              Get(ex.features, "SSLfinal_State") = -1 /\ ~Called("check_ssl")
        /\ ex.scheme = Https => Called("check_ssl")

\* C14: for an https URL the certificate's days until expiry d give 1 if
\* d > 365, 0 if 30 < d <= 365 and -1 if d <= 30; an error of the connection,
\* the handshake or the certificate gives -1, and nothing is raised
C14_CertificateBuckets ==
    (validate_url(ex.url).ok /\ ex.scheme = Https /\ Has(ex.features, "SSLfinal_State")) =>
        /\ ex.pc = "whois" => ex.error = NoError
        /\ ex.ssl_answer.kind = "error" => Get(ex.features, "SSLfinal_State") = -1
        /\ ex.ssl_answer.kind = "cert" =>
              Get(ex.features, "SSLfinal_State") =
                 IF ex.ssl_answer.days > 365 THEN 1
                 ELSE IF ex.ssl_answer.days > 30 THEN 0
                 ELSE -1

\* how often the call has started the probe
Attempts(probe) == Cardinality({c \in 1..Len(ex.calls) : ex.calls[c] = probe})

\* C15: DNSRecord is 1 when the resolution of the domain succeeds and -1 for
\* every failure and for an empty domain; one call resolves at most once, an
\* empty domain not at all, and nothing is raised
C15_DnsSignal ==
    Has(ex.features, "DNSRecord") =>
        /\ Get(ex.features, "DNSRecord") =
              IF ex.domain # <<>> /\ ex.dns_answer.kind = "resolved" THEN 1 ELSE -1
        /\ Attempts("check_dns") <= 1
        /\ ex.domain = <<>> => Attempts("check_dns") = 0
        /\ ex.pc = "html" => ex.error = NoError

\* the resolver timed out: one attempt, -1, and the call returned
C15_Witness ==
    /\ ex.pc = "returned"
    /\ ex.dns_answer.kind = "timeout"
    /\ Attempts("check_dns") = 1
    /\ Get(ex.features, "DNSRecord") = -1

\* C16: an age of at least 365 days gives 1, of 180 to 364 days 0, below 180
\* days -1, and an age WHOIS does not give -1; Domain_registeration_length
\* and age_of_domain carry the same value
C16_AgeBuckets ==
    Has(ex.features, "age_of_domain") =>
        /\ Get(ex.features, "Domain_registeration_length") = Get(ex.features, "age_of_domain")
        /\ Get(ex.features, "age_of_domain") =
              IF ex.domain # <<>> /\ ex.whois_answer.kind = "date"
              THEN IF ex.whois_answer.days >= 365 THEN 1
                   ELSE IF ex.whois_answer.days >= 180 THEN 0
                   ELSE -1
              ELSE -1

\* a domain registered 180 days ago
C16_Witness ==
    /\ ex.pc = "returned"
    /\ ex.whois_answer.kind = "date"
    /\ ex.whois_answer.days = 180
    /\ Get(ex.features, "age_of_domain") = 0
    /\ Get(ex.features, "Domain_registeration_length") = 0

\* the host requests.get(url) connects to (url_extractor.py:43): the network
\* location without userinfo and port, in lower case
ContactedHost(url) == NetlocHost(urlparse(url).netloc)

\* C23: for every accepted URL the host the call analyses (lexical signals,
\* registrable domain, TLS, DNS and WHOIS probes) is, up to letter case, the
\* host the content fetch connects to
C23_AnalysedHostIsContacted ==
    (validate_url(ex.url).ok /\ Called("fetch_content")) =>
        Lower(ex.host) = ContactedHost(ex.url)

\* C24: no vector has having_IP_Address = -1: a host of four groups of digits
\* has a final label that is not alphabetic, so validate_url rejects the URL
\* before the test of line 153 is reached
C24_NeverIpLiteral ==
    /\ validate_url(ex.url).ok => ~IsDottedQuad(UrlHost(urlparse(ex.url).netloc))
    /\ Has(ex.features, "having_IP_Address") =>
          Get(ex.features, "having_IP_Address") = 1

\* the dotted-quad URL ended at the rule on the final label, with no vector
C24_Witness ==
    /\ ex.url = UrlQuad
    /\ IsDottedQuad(UrlHost(urlparse(ex.url).netloc))
    /\ ex.pc = "raised"
    /\ ex.error.verdict.text = "Invalid TLD: ."
    /\ ex.error.verdict.detail = <<"1">>
    /\ ex.features = <<>>

\* the page as the call holds it: the frame of line 202 with nothing but the
\* status and the text of the fetch, and the registrable domain
PageFrame ==
    [NewFrame(ex.url) EXCEPT !.pc = "html", !.status = ex.status,
                             !.html = ex.html, !.domain = ex.domain]

\* C21: a call on an accepted URL fetches the content exactly once, also when
\* the fetch fails, and not at all before validation; the ten signals of the
\* page and Redirect are determined by the status and the text of that one
\* fetch
C21_SingleFetch ==
    /\ Attempts("fetch_content") =
          IF validate_url(ex.url).ok /\ ex.pc \notin {"validate", "fetch"} THEN 1 ELSE 0
    /\ ex.pc = "returned" =>
          /\ \A ref \in {StepHtml(PageFrame)} :
                \A n \in RefSignals \cup JsSignals :
                    Get(ex.features, n) = Get(ref.features, n)
          /\ Get(ex.features, "Redirect") =
                IF 300 <= ex.status /\ ex.status < 400 THEN -1 ELSE 1

\* the fetch failed and the call went on to its end without a second request
C21_Witness ==
    /\ ex.pc = "returned"
    /\ ex.status = NoStatus
    /\ ex.html = <<>>
    /\ Attempts("fetch_content") = 1
    /\ IsFallback(ex.features)

(***************************************************************************)
(* The request models (api_utils.py:24-54).                                *)
(***************************************************************************)
\* str.strip(), the blank being the only whitespace of the inputs
RECURSIVE Strip(_)
Strip(s) ==
    IF s = <<>> THEN s
    ELSE IF Head(s) = " " THEN Strip(Tail(s))
    ELSE IF s[Len(s)] = " " THEN Strip(SubSeq(s, 1, Len(s) - 1))
    ELSE s

\* if '//' not in v and '.' in v: v = 'http://' + v
Coerce(v) ==
    IF ~Contains(v, <<"/", "/">>) /\ Contains(v, <<".">>)
    THEN <<"h","t","t","p",":","/","/">> \o v
    ELSE v

\* URLRequest.validate_url: ok is FALSE when it raises ValueError
URLRequest_validate_url(v) == [ok |-> Strip(v) # <<>>, url |-> Coerce(Strip(v))]

NotBlank(u) == Strip(u) # <<>>

CoerceAll(kept) == [i \in 1..Len(kept) |-> Coerce(Strip(kept[i]))]

\* MultiURLRequest.validate_urls: ok is FALSE when it raises ValueError
MultiURLRequest_validate_urls(v) ==
    [ok |-> v # <<>> /\ SelectSeq(v, NotBlank) # <<>>,
     urls |-> CoerceAll(SelectSeq(v, NotBlank))]

(***************************************************************************)
(* process_url_features (main.py:97-109) and clean_features                *)
(* (api_utils.py:68-79).                                                   *)
(***************************************************************************)
\* an int or float stays unless it is nan or inf, anything else becomes 0
CleanValue(v) == IF v \in Int THEN v ELSE 0

clean_features(features) ==
    [i \in 1..Len(features) |-> <<features[i][1], CleanValue(features[i][2])>>]

None == [none |-> TRUE, dict |-> <<>>]

\* a wrapper that also drops a URL whose fetch came back Unavailable
ProcessFrame_DropUnfetched(f) ==
    IF f.pc = "raised" \/ f.status = NoStatus THEN None
    ELSE [none |-> FALSE, dict |-> Put(clean_features(f.features), "url", f.url)]

\* f: the frame extract_features_from_url ended in; every exception gives None
ProcessFrame(f) ==
    IF f.pc = "raised" THEN None
    ELSE [none |-> FALSE, dict |-> Put(clean_features(f.features), "url", f.url)]

\* the frame one step further, the probes answering as env says
Advance(f, env) ==
    CASE f.pc = "validate" -> StepValidate(f)
      [] f.pc = "fetch" -> StepFetch(f, env.fetch)
      [] f.pc = "lexical" -> StepLexical(f)
      [] f.pc = "ssl" -> StepSsl(f, env.ssl)
      [] f.pc = "whois" -> StepWhois(f, env.whois)
      [] f.pc = "dns" -> StepDns(f, env.dns)
      [] f.pc = "html" -> StepHtml(f)
      [] f.pc = "finish" -> StepFinish(f)
      [] OTHER -> f

\* the frame a call ends in: returned or raised
RECURSIVE RunFrame(_, _)
RunFrame(f, env) ==
    IF f.pc \in {"returned", "raised"} THEN f
    ELSE CHOOSE r \in {RunFrame(g, env) : g \in {Advance(f, env)}} : TRUE

\* the whole call, given what each probe answers
extract_features_from_url(url, env) == RunFrame(NewFrame(url), env)

process_url_features(url, env) == ProcessFrame(extract_features_from_url(url, env))

(***************************************************************************)
(* pandas, as the endpoints use it (main.py:125-126, 210-215).             *)
(***************************************************************************)
\* pd.DataFrame(dicts): the columns are the keys in insertion order
DataFrame(dicts) ==
    [columns |-> Keys(dicts[1]),
     rows |-> [k \in 1..Len(dicts) |->
                 [j \in 1..Len(dicts[1]) |-> Get(dicts[k], dicts[1][j][1])]]]

\* position of column name in the frame
ColumnAt(df, name) == CHOOSE j \in 1..Len(df.columns) : df.columns[j] = name

\* a selection that takes the first columns as they stand
SelectColumns_ByPosition(df, cols) ==
    [columns |-> SubSeq(df.columns, 1, Len(cols)),
     rows |-> [k \in 1..Len(df.rows) |-> SubSeq(df.rows[k], 1, Len(cols))]]

\* df[cols]: the named columns, in the order of cols
SelectColumns(df, cols) ==
    [columns |-> cols,
     rows |-> [k \in 1..Len(df.rows) |->
                 [j \in 1..Len(cols) |-> df.rows[k][ColumnAt(df, cols[j])]]]]

\* df[name]
Column(df, name) == [k \in 1..Len(df.rows) |-> df.rows[k][ColumnAt(df, name)]]

\* the classifier's label text (predict_pipeline.py:51-52)
LabelText(pred) == IF pred = 0 THEN "phishing" ELSE IF pred = 1 THEN "safe" ELSE "unknown"

\* the trained models a deployment may hold: each is a function of the vector
Classifiers == {"all_phishing", "all_safe", "by_ssl"}

\* self.model.predict (predict_pipeline.py:47), for one row
Classify(clf, row) ==
    CASE clf = "all_phishing" -> 0
      [] clf = "all_safe" -> 1
      [] OTHER -> IF row[8] = 1 THEN 1 ELSE 0

\* pipeline.predict (predict_pipeline.py:34-56): the frame with the columns
\* Result and Result_Value added
Predict(df, clf) ==
    [k \in 1..Len(df.rows) |->
        [vector |-> df.rows[k], Result |-> LabelText(Classify(clf, df.rows[k])),
         Result_Value |-> Classify(clf, df.rows[k])]]

\* a URL column that follows the request's list instead of the frame
UrlColumn_ByIndex(urls, df) == [k \in 1..Len(df.rows) |-> urls[k]]

\* prediction_df['URL'] = features_df['url'] (main.py:215)
UrlColumn(urls, df) == Column(df, "url")

\* the report's rows: the prediction with its URL column
WithUrl(pred, urlcol) ==
    [k \in 1..Len(pred) |->
        [vector |-> pred[k].vector, Result |-> pred[k].Result,
         Result_Value |-> pred[k].Result_Value, URL |-> urlcol[k]]]

(***************************************************************************)
(* Spec: the endpoints of main.py.  A single-URL request is served in one  *)
(* step; a batch request starts one to_thread task per URL, the tasks run  *)
(* on the default executor's threads and the handler answers when gather   *)
(* has them all.                                                           *)
(***************************************************************************)
UrlBareShort == <<"b","i","t",".","l","y","/","x","y","z">>

Blank == <<" ">>

\* what a client may send as one URL
RawSingle == SampleURLs \cup {UrlBareShort, Blank}

RawBatch == {UrlGood, UrlNotAUrl, UrlBareShort}

EnvDown ==
    [fetch |-> Unavailable, ssl |-> [kind |-> "error", days |-> 0],
     whois |-> [kind |-> "error", days |-> 0], dns |-> [kind |-> "error", days |-> 0]]

EnvUp ==
    [fetch |-> [ok |-> TRUE, status |-> 200, html |-> PageTen],
     ssl |-> [kind |-> "cert", days |-> 400],
     whois |-> [kind |-> "date", days |-> 365], dns |-> [kind |-> "resolved", days |-> 0]]

EnvHostile ==
    [fetch |-> [ok |-> TRUE, status |-> 200, html |-> PageBroken],
     ssl |-> [kind |-> "cert", days |-> 10],
     whois |-> [kind |-> "date", days |-> 179], dns |-> [kind |-> "resolved", days |-> 0]]

Envs == {EnvDown, EnvUp, EnvHostile}

NotCalled == [called |-> FALSE, columns |-> <<>>, rows |-> <<>>]

Init ==
    /\ input = <<>>
    /\ verdict = NoVerdict
    /\ ex = IdleFrame
    /\ req = IdleReq
    /\ tasks = <<>>
    /\ results = <<>>
    /\ response = IdleResponse
    /\ handed = NotCalled

ErrorResponse(code, detail) == [kind |-> "error", code |-> code, detail |-> detail]

\* a finished call of process_url_features: the frame it ended in, what it
\* returned, and how many calls of the request had finished before it
DoneTask(f, order) == [state |-> "done", frame |-> f, ret |-> ProcessFrame(f), order |-> order]

PendingTask == [state |-> "pending", frame |-> IdleFrame, ret |-> None, order |-> 0]

\* the rest of a single-URL handler once process_url_features has returned
\* (main.py:120-150, 162-186): a 400 with the handler's message, or the answer
\* made of the prediction on the ordered columns
ServeSingle(kind, url, f, clf) ==
    /\ req' = [kind |-> kind, urls |-> <<url>>]
    /\ tasks' = <<DoneTask(f, 0)>>
    /\ results' = <<ProcessFrame(f)>>
    /\ IF ProcessFrame(f).none
       THEN /\ response' = ErrorResponse(400, "Failed to extract features from URL.")
            /\ handed' = handed
       ELSE \E df \in {DataFrame(<<ProcessFrame(f).dict>>)} :
            \E ordered \in {SelectColumns(df, MODEL_FEATURE_ORDER)} :
               /\ handed' = [called |-> TRUE, columns |-> ordered.columns,
                             rows |-> ordered.rows]
               /\ response' =
                    [kind |-> IF kind = "predict_url" THEN "json" ELSE "csv",
                     rows |-> WithUrl(Predict(ordered, clf), <<url>>)]
    /\ UNCHANGED <<input, verdict, ex>>

\* a request the request model refuses (FastAPI answers 422)
Refuse(kind, detail) ==
    /\ req' = [kind |-> kind, urls |-> <<>>]
    /\ response' = ErrorResponse(422, detail)
    /\ UNCHANGED <<input, verdict, ex, tasks, results, handed>>

\* POST /predict-url (main.py:111-150)
predict_url ==
    /\ req.kind = "idle"
    /\ \E raw \in RawSingle :
       \E v \in {URLRequest_validate_url(raw)} :
          IF ~v.ok THEN Refuse("predict_url", "URL cannot be empty")
          ELSE \E env \in Envs, clf \in Classifiers :
               \E f \in {extract_features_from_url(v.url, env)} :
                  ServeSingle("predict_url", v.url, f, clf)

\* POST /download-url-report (main.py:153-186)
download_url_report ==
    /\ req.kind = "idle"
    /\ \E raw \in RawSingle :
       \E v \in {URLRequest_validate_url(raw)} :
          IF ~v.ok THEN Refuse("download_url_report", "URL cannot be empty")
          ELSE \E env \in Envs, clf \in Classifiers :
               \E f \in {extract_features_from_url(v.url, env)} :
                  ServeSingle("download_url_report", v.url, f, clf)

RawBatches == UNION {[1..n -> RawBatch] : n \in 1..MaxBatch}

\* POST /predict-multi-url, up to the await (main.py:189-200)
predict_multi_url ==
    /\ req.kind = "idle"
    /\ \E raw \in RawBatches :
       \E v \in {MultiURLRequest_validate_urls(raw)} :
          /\ v.ok
          /\ req' = [kind |-> "predict_multi_url", urls |-> v.urls]
          /\ tasks' = [i \in 1..Len(v.urls) |-> PendingTask]
    /\ UNCHANGED <<input, verdict, ex, results, response, handed>>

Running == {i \in 1..Len(tasks) : tasks[i].state = "running"}

Finished == {i \in 1..Len(tasks) : tasks[i].state = "done"}

\* a to_thread call that starts a thread of its own, whatever is running
WorkerFree_Unbounded == TRUE

\* asyncio.to_thread (main.py:199) runs on the loop's default
\* ThreadPoolExecutor: a queued call starts when fewer than max_workers run
WorkerFree == Cardinality(Running) < MaxWorkers

\* a thread of the pool takes the oldest queued call
StartTask(i) ==
    /\ req.kind = "predict_multi_url"
    /\ tasks[i].state = "pending"
    /\ \A j \in 1..(i - 1) : tasks[j].state # "pending"
    /\ WorkerFree
    /\ tasks' = [tasks EXCEPT ![i].state = "running"]
    /\ UNCHANGED <<input, verdict, ex, req, results, response, handed>>

\* the thread's call process_url_features(url) returns
FinishTask(i) ==
    /\ req.kind = "predict_multi_url"
    /\ tasks[i].state = "running"
    /\ \E env \in Envs :
       \E f \in {extract_features_from_url(req.urls[i], env)} :
          tasks' = [tasks EXCEPT ![i] = DoneTask(f, Cardinality(Finished))]
    /\ UNCHANGED <<input, verdict, ex, req, results, response, handed>>

Gathered(ts) == [i \in 1..Len(ts) |-> ts[i].ret]

IsDict(r) == ~r.none

\* valid_features = [f for f in results if f is not None]
ValidFeatures(rets) == [k \in 1..Len(SelectSeq(rets, IsDict)) |-> SelectSeq(rets, IsDict)[k].dict]

\* a handler without the test of line 205: the list of dicts goes on to the
\* classifier and into the report also when it is empty
BatchRespond_EmptyReport ==
    /\ req.kind = "predict_multi_url"
    /\ response.kind = "idle"
    /\ \A i \in 1..Len(tasks) : tasks[i].state = "done"
    /\ results' = Gathered(tasks)
    /\ \E valid \in {ValidFeatures(Gathered(tasks))} :
          /\ handed' = [called |-> TRUE, columns |-> MODEL_FEATURE_ORDER,
                        rows |-> [k \in 1..Len(valid) |-> <<>>]]
          /\ response' = [kind |-> "csv", rows |-> [k \in 1..Len(valid) |-> valid[k]]]
    /\ UNCHANGED <<input, verdict, ex, req, tasks>>

\* the handler after the await (main.py:200-230)
BatchRespond ==
    /\ req.kind = "predict_multi_url"
    /\ response.kind = "idle"
    /\ \A i \in 1..Len(tasks) : tasks[i].state = "done"
    /\ results' = Gathered(tasks)
    /\ \E valid \in {ValidFeatures(Gathered(tasks))} :
          IF valid = <<>>
          THEN /\ response' = ErrorResponse(400,
                        "No valid features could be extracted from any of the URLs.")
               /\ handed' = handed
          ELSE \E df \in {DataFrame(valid)} :
               \E ordered \in {SelectColumns(df, MODEL_FEATURE_ORDER)} :
               \E clf \in Classifiers :
                  /\ handed' = [called |-> TRUE, columns |-> ordered.columns,
                                rows |-> ordered.rows]
                  /\ response' =
                        [kind |-> "csv",
                         rows |-> WithUrl(Predict(ordered, clf), UrlColumn(req.urls, df))]
    /\ UNCHANGED <<input, verdict, ex, req, tasks>>

Next ==
    \/ predict_url
    \/ download_url_report
    \/ predict_multi_url
    \/ \E i \in 1..Len(tasks) : StartTask(i)
    \/ \E i \in 1..Len(tasks) : FinishTask(i)
    \/ BatchRespond

Spec == Init /\ [][Next]_vars

(***************************************************************************)
(* Claims about the endpoints, checked under Spec.                         *)
(***************************************************************************)
Batch == req.kind = "predict_multi_url"

\* a list of names as pairs, for KeyAt
Keys2(names) == [i \in 1..Len(names) |-> <<names[i], i>>]

Single == req.kind \in {"predict_url", "download_url_report"}

\* position of key k in dict d
KeyAt(d, k) == CHOOSE i \in 1..Len(d) : d[i][1] = k

\* the tasks whose call returned a dict
Kept == {i \in 1..Len(tasks) : ~tasks[i].ret.none}

\* the task behind the k-th dict of the gathered list
KeptAt(k) == CHOOSE i \in Kept : Cardinality({j \in Kept : j <= i}) = k

\* the 30 signals of frame f, by name, in the classifier's order
VectorOf(f) == [j \in 1..30 |-> Get(f.features, MODEL_FEATURE_ORDER[j])]

\* the validated URLs of the request
Accepted == {i \in 1..Len(req.urls) : validate_url(req.urls[i]).ok}

\* the call of task i validated its URL and its fetch came back Unavailable
Unfetched(i) ==
    /\ tasks[i].state = "done"
    /\ "fetch_content" \in {tasks[i].frame.calls[c] : c \in 1..Len(tasks[i].frame.calls)}
    /\ tasks[i].frame.status = NoStatus

\* C3: what an endpoint hands to the classifier has exactly the 30 columns of
\* MODEL_FEATURE_ORDER, which is COLUMNS without its last entry Result, and
\* every value sits under its own name, whatever the order extraction
\* inserted the signals in
C3_ClassifierColumns ==
    handed.called =>
        /\ handed.columns = MODEL_FEATURE_ORDER
        /\ MODEL_FEATURE_ORDER = SubSeq(COLUMNS, 1, 30)
        /\ COLUMNS[31] = "Result"
        /\ Len(handed.rows) = Cardinality(Kept)
        /\ \A k \in 1..Len(handed.rows) :
              /\ Len(handed.rows[k]) = 30
              /\ \A j \in 1..30 :
                    handed.rows[k][j] = Get(tasks[KeptAt(k)].frame.features, COLUMNS[j])

\* a batch of two vectors was handed over, and their dicts hold DNSRecord
\* before Favicon while the columns handed over hold Favicon first
C3_Witness ==
    /\ Batch
    /\ handed.called
    /\ Len(handed.rows) = 2
    /\ \A k \in 1..2 :
          KeyAt(results[KeptAt(k)].dict, "DNSRecord") < KeyAt(results[KeptAt(k)].dict, "Favicon")
    /\ KeyAt(Keys2(handed.columns), "Favicon") < KeyAt(Keys2(handed.columns), "DNSRecord")

\* C6: in single-URL mode a URL that fails validation is answered with the
\* reason validate_url gave, not with a generic failure message
C6_ReasonReported ==
    (Single /\ Len(req.urls) = 1 /\ ~validate_url(req.urls[1]).ok) =>
        /\ response.kind = "error"
        /\ response.detail = validate_url(req.urls[1]).text

\* C7: when a batch has a valid URL, its report has exactly one vector per
\* URL that passes validation and none for the others
C7_OneVectorPerValidUrl ==
    (Batch /\ response.kind # "idle" /\ Accepted # {}) =>
        /\ response.kind = "csv"
        /\ Len(response.rows) = Cardinality(Accepted)
        /\ Kept = Accepted

\* C8: every row of the batch report pairs a URL with the vector the
\* extraction of that same URL produced, in whatever order the extractions
\* finished and whichever siblings were dropped
C8_RowsPairUrlWithOwnVector ==
    (Batch /\ response.kind = "csv") =>
        /\ Len(response.rows) = Cardinality(Kept)
        /\ \A k \in 1..Len(response.rows) :
              /\ response.rows[k].URL = req.urls[KeptAt(k)]
              /\ response.rows[k].URL = tasks[KeptAt(k)].frame.url
              /\ response.rows[k].vector = VectorOf(tasks[KeptAt(k)].frame)

\* a report of two rows whose first URL was dropped, the third URL having
\* finished before the second
C8_Witness ==
    /\ Batch
    /\ response.kind = "csv"
    /\ Len(tasks) = 3
    /\ Kept = {2, 3}
    /\ tasks[3].order < tasks[2].order
    /\ req.urls[2] # req.urls[3]
    /\ response.rows[1].vector # response.rows[2].vector

\* C9: no more extractions run at the same time than the pool has workers
C9_PoolBound == Cardinality(Running) <= MaxWorkers

\* every worker is busy and a URL of the batch waits
C9_Witness ==
    /\ Cardinality(Running) = MaxWorkers
    /\ \E i \in 1..Len(tasks) : tasks[i].state = "pending"

\* C10 as stated: a validated URL whose fetch came back Unavailable has no
\* row in the batch report
C10_AsStated ==
    (Batch /\ response.kind = "csv") =>
        \A i \in 1..Len(tasks) : Unfetched(i) => i \notin Kept

\* C10 amended: a validated URL whose fetch came back Unavailable is kept; its
\* row carries its vector with the ten HTML signals at their fallback values
C10_UnfetchedKept ==
    (Batch /\ response.kind = "csv") =>
        \A i \in 1..Len(tasks) : Unfetched(i) =>
            /\ i \in Kept
            /\ \E k \in 1..Len(response.rows) :
                  /\ KeptAt(k) = i
                  /\ response.rows[k].URL = req.urls[i]
                  /\ response.rows[k].vector = VectorOf(tasks[i].frame)
                  /\ \A n \in {"Favicon", "Request_URL", "URL_of_Anchor",
                               "Links_in_tags", "SFH"} :
                        response.rows[k].vector[KeyAt(Keys2(MODEL_FEATURE_ORDER), n)] = -1
                  /\ \A n \in {"Submitting_to_email", "on_mouseover", "RightClick",
                               "popUpWidnow", "Iframe"} :
                        response.rows[k].vector[KeyAt(Keys2(MODEL_FEATURE_ORDER), n)] = 0

\* a report with the row of a URL whose fetch came back Unavailable, next to a
\* sibling that was fetched
C10_Witness ==
    /\ Batch
    /\ response.kind = "csv"
    /\ \E i, j \in Kept : Unfetched(i) /\ ~Unfetched(j)

\* every call of the batch has ended and none returned a dict
AllFailed ==
    /\ Batch
    /\ \A i \in 1..Len(tasks) : tasks[i].state = "done" /\ tasks[i].ret.none

\* C25: a batch never gets a report without rows; when the extraction of
\* every URL failed the answer is the error 400 of line 206 and the
\* classifier was not called
C25_NoEmptyReport ==
    (Batch /\ response.kind # "idle") =>
        /\ response.kind = "csv" => Len(response.rows) >= 1 /\ ~AllFailed
        /\ AllFailed =>
              /\ response =
                    ErrorResponse(400,
                        "No valid features could be extracted from any of the URLs.")
              /\ ~handed.called

\* two URLs, one rejected by the validator and one whose page made the call
\* raise: no dict, the error and no classifier call
C25_Witness ==
    /\ AllFailed
    /\ Len(tasks) >= 2
    /\ \E i, j \in 1..Len(tasks) :
          /\ ~validate_url(req.urls[i]).ok
          /\ validate_url(req.urls[j]).ok
    /\ response.kind = "error"
    /\ response.code = 400
    /\ ~handed.called

(***************************************************************************)
(* SpecRatio: the HTML block on pages with k external references out of n, *)
(* for every n up to MaxRefs and for the n at which a whole percentage     *)
(* meets a threshold.  The page is served with status 200 for UrlGood; it  *)
(* has n anchors and n scripts, the first k of each pointing to evil.com.  *)
(***************************************************************************)
PercentTotals == {50, 100}

RatioCases ==
    UNION {{<<k, n>> : k \in 0..n} : n \in (0..MaxRefs) \cup PercentTotals}

RatioRef(i, k) == IF i <= k THEN RefEvil ELSE RefLocal

RatioPage(k, n) ==
    [i \in 1..(2 * n) |->
        IF i <= n THEN El("a", "", "href", RatioRef(i, k), "")
        ELSE El("script", "", "src", RatioRef(i - n, k), "")]

\* the frame of a call up to the statement at pc
RECURSIVE RunUntil(_, _, _)
RunUntil(f, env, pc) ==
    IF f.pc \in {pc, "returned", "raised"} THEN f
    ELSE CHOOSE r \in {RunUntil(g, env, pc) : g \in {Advance(f, env)}} : TRUE

\* a non-empty page even for n = 0: the references follow a paragraph of text
RatioEnv(k, n) ==
    [EnvUp EXCEPT !.fetch = [ok |-> TRUE, status |-> 200, html |-> PagePlain \o RatioPage(k, n)]]

InitRatio ==
    /\ input \in RatioCases
    /\ verdict = NoVerdict
    /\ ex = RunUntil(NewFrame(UrlGood), RatioEnv(input[1], input[2]), "html")
    /\ req = IdleReq
    /\ tasks = <<>>
    /\ results = <<>>
    /\ response = IdleResponse
    /\ handed = NotCalled

NextRatio ==
    \/ ExHtml
    \/ ExFinish

SpecRatio == InitRatio /\ [][NextRatio]_vars

\* the bucket of k out of n with the thresholds lo and hi, in percent
Expected(k, n, lo, hi) ==
    IF n = 0 THEN 1
    ELSE IF 100 * k < lo * n THEN 1
    ELSE IF 100 * k <= hi * n THEN 0
    ELSE -1

\* C17: with k of n references external, Request_URL, URL_of_Anchor and
\* Links_in_tags are 1 below the low threshold, 0 from the low up to and
\* including the high threshold, -1 above it and 1 without references, the
\* thresholds being 22/61, 31/67 and 17/81 percent
C17_RatioBuckets ==
    Analysed =>
        /\ Get(ex.features, "Request_URL") = Expected(2 * input[1], 2 * input[2], 22, 61)
        /\ Get(ex.features, "URL_of_Anchor") = Expected(input[1], input[2], 31, 67)
        /\ Get(ex.features, "Links_in_tags") = Expected(input[1], input[2], 17, 81)

\* 3 external references out of 10 give Request_URL = 0
C17_Witness ==
    /\ Analysed
    /\ input = <<3, 10>>
    /\ Get(ex.features, "Request_URL") = 0

(***************************************************************************)
(* Independence of the URL's own signals from the network, under           *)
(* SpecExtract: every extraction of a URL is compared with the extraction  *)
(* of the same URL in which every probe fails.                             *)
(***************************************************************************)
LexicalNames ==
    {"having_IP_Address", "URL_Length", "Shortining_Service", "having_At_Symbol",
     "double_slash_redirecting", "Prefix_Suffix", "having_Sub_Domain", "port", "HTTPS_token"}

\* C20: the nine signals of the URL text are the same in every extraction of
\* the same URL, whatever the fetch, TLS, DNS and WHOIS probes answer
C20_LexicalIndependent ==
    Has(ex.features, "HTTPS_token") =>
        \A ref \in {RunUntil(NewFrame(ex.url), EnvDown, "dns")} :
            \A n \in LexicalNames : Get(ex.features, n) = Get(ref.features, n)

\* the shortener URL with every probe answering, unlike the reference
C20_Witness ==
    /\ ex.pc = "returned"
    /\ ex.url = UrlShort
    /\ ex.status = 302
    /\ ex.whois_answer.kind = "date"
    /\ ex.dns_answer.kind = "resolved"
    /\ Get(ex.features, "Shortining_Service") = -1
    /\ Get(ex.features, "having_Sub_Domain") = 1

(***************************************************************************)
(* SpecRequest: the two request models (api_utils.py:24-54) applied to     *)
(* what a client may send as a URL: every string over a small alphabet up  *)
(* to MaxTail characters, bare or padded with blanks, and a few sample     *)
(* URLs.                                                                   *)
(***************************************************************************)
RawChars == {"a", ".", "/", ":"}

RawTails == UNION {[1..n -> RawChars] : n \in 0..MaxTail}

Pads == {<<>>, <<" ">>}

UrlBareSlashes == <<"b","i","t",".","l","y","/","a","/","/","b">>

UrlMailto == <<"m","a","i","l","t","o",":","a","@","b",".","c","o">>

UrlLocalhost == <<"l","o","c","a","l","h","o","s","t">>

RawInputs ==
    {l \o t \o r : l \in Pads, t \in RawTails, r \in Pads}
    \cup {UrlGood, UrlHttps, UrlUpper, UrlFtp, UrlBareShort, UrlBareSlashes,
          UrlMailto, UrlLocalhost}

InitRequest ==
    /\ input \in RawInputs
    /\ verdict = NoVerdict
    /\ ex = IdleFrame
    /\ req = IdleReq
    /\ tasks = <<>>
    /\ results = <<>>
    /\ response = IdleResponse
    /\ handed = NotCalled

ReqRest == <<input, verdict, ex, tasks, results, response, handed>>

\* URLRequest(url=input)
NormaliseSingle ==
    /\ req.kind = "idle"
    /\ req' = [kind |-> "single", ok |-> URLRequest_validate_url(input).ok,
               urls |-> <<URLRequest_validate_url(input).url>>]
    /\ UNCHANGED ReqRest

\* MultiURLRequest(urls=[..., input]), alone or behind a blank entry
NormaliseBatch ==
    /\ req.kind = "idle"
    /\ \E before \in {<<>>, <<Blank>>} :
          req' = [kind |-> "batch",
                  ok |-> MultiURLRequest_validate_urls(before \o <<input>>).ok,
                  urls |-> MultiURLRequest_validate_urls(before \o <<input>>).urls]
    /\ UNCHANGED ReqRest

\* URLRequest(url=...) on a URL that URLRequest has returned
NormaliseAgain ==
    /\ req.kind = "single"
    /\ req.ok
    /\ req' = [kind |-> "again", ok |-> URLRequest_validate_url(req.urls[1]).ok,
               urls |-> req.urls \o <<URLRequest_validate_url(req.urls[1]).url>>]
    /\ UNCHANGED ReqRest

NextRequest ==
    \/ NormaliseSingle
    \/ NormaliseBatch
    \/ NormaliseAgain

SpecRequest == InitRequest /\ [][NextRequest]_vars

\* the input as the model sees it once stripped
Stripped == Strip(input)

HttpPrefix == <<"h","t","t","p",":","/","/">>

\* C22: the request models give "http://" followed by the input for every
\* non-empty input without a scheme and the input itself for every input
\* with a scheme; normalising a normalised URL changes nothing; the batch
\* model gives for an entry what the single model gives for it
C22_SchemeAdded ==
    (req.kind # "idle" /\ Stripped # <<>>) =>
        /\ req.ok
        /\ req.kind \in {"single", "batch"} =>
              req.urls = <<IF urlparse(Stripped).scheme = <<>>
                           THEN HttpPrefix \o Stripped ELSE Stripped>>
        /\ req.kind = "again" => req.urls[2] = req.urls[1]

====
